---- MODULE Spec2Model ----
(***************************************************************************)
(* MTraderData (backtradermql5/mt5data.py): the finite state machine of    *)
(* _load, which merges an optional external source (backfill_from), the    *)
(* historical queue returned by the store (qhist) and the live channel     *)
(* (qlive) into the datetime line of the feed.                             *)
(*                                                                         *)
(* One call of _load is modelled as LoadEnter (the two early returns in    *)
(* front of the loop) followed by one action per iteration of the          *)
(* `while True` loop; pc tells whether a call is in progress and ret holds *)
(* what the last call returned (True = NewBar, None = TryLater, False =    *)
(* EndOfData, or the exception that left the call).                        *)
(***************************************************************************)
EXTENDS Integers, Sequences, FiniteSets, TLC

\* ---------------------------------------------------------------- bounds
\* raw epoch time stamps carried by messages are 1..MaxTs
MaxTs == 3
\* live messages the store pushes during the life of the feed
MaxLive == 3

\* ------------------------------------------------------------- constants
\* the states of the finite state machine of _load
ST_FROM == "FROM"
ST_START == "START"
ST_LIVE == "LIVE"
ST_HISTORBACK == "HISTORBACK"
ST_OVER == "OVER"

\* backtrader's TimeFrame.Ticks, the value line 254 compares p.timeframe with
TimeFrameTicks == 1
\* ... and one candle time frame (backtrader's TimeFrame.Minutes is 4)
TimeFrames == {TimeFrameTicks, 4}

\* a tick carries epoch milliseconds, a candle epoch seconds
MsPerSecond == 1000

\* self.fromdate when no start date is configured: float("-inf")
NegInf == 0

\* self.lines.datetime[-1] while no bar has been delivered: NaN
NaN == -1

SubscribeModes == {"DATA", "SUB", "NONE"}

\* notifications of the feed (put_notification)
DELAYED == "DELAYED"
CONNECTED == "CONNECTED"
DISCONNECTED == "DISCONNECTED"
LIVE == "LIVE"

Dataname == "EURUSD"

\* ------------------------------------------------------------- messages
\* What qhist.get() yields: a data row, the empty end marker (falsy), or
\* None when the store cancelled the request.
\* A row is msg["data"]: the time stamp followed by the prices, <<bid, ask>>
\* of a tick or <<open, high, low, close, volume, spread>> of a candle.
HistData(ts, prices) == [kind |-> "data", ts |-> ts, prices |-> prices]
HistEnd == [kind |-> "end", ts |-> 0, prices |-> <<>>]
HistNone == [kind |-> "none", ts |-> 0, prices |-> <<>>]

\* the prices a tick can carry, <<bid, ask>>, in points
Quotes == {<<1, 2>>, <<2, 3>>}
\* the prices a candle can carry, <<open, high, low, close, volume, spread>>
Candles == {<<2, 3, 1, 2, 5, 1>>}
\* the prices of a row or data message of the given granularity
Prices(granularity) == IF granularity = "TICK" THEN Quotes ELSE Candles

\* one of them
SomePrices(granularity) == CHOOSE pr \in Prices(granularity) : TRUE

\* What the live channel carries. Line 215 reads msg["status"] of every
\* message, so every message has a status; a data message carries symbol,
\* timeframe and data as well, a control event does not.
ControlMsg(status) ==
    [status |-> status, hasdata |-> FALSE, symbol |-> "", timeframe |-> "", ts |-> 0,
     prices |-> <<>>]
DataMsg(symbol, timeframe, ts, prices) ==
    [status |-> "CONNECTED", hasdata |-> TRUE, symbol |-> symbol,
     timeframe |-> timeframe, ts |-> ts, prices |-> prices]

\* self.o.get_granularity(self.p.timeframe, self.p.compression)
get_granularity(timeframe) == IF timeframe = TimeFrameTicks THEN "TICK" ELSE "M1"

\* Messages the store can push for a feed of the given time frame: the two
\* control events, matching data messages with every time stamp, and one
\* message each with a foreign symbol and with the other time frame label
\* (their data is never read).
LiveMsgs(timeframe) ==
    {ControlMsg("DISCONNECTED"), ControlMsg("CONNECTED")}
    \cup {DataMsg(Dataname, get_granularity(timeframe), ts, pr) :
             ts \in 1..MaxTs, pr \in Prices(get_granularity(timeframe))}
    \cup {DataMsg("OTHER", get_granularity(timeframe), 1, SomePrices(get_granularity(timeframe)))}
    \cup {DataMsg(Dataname, g, 1, SomePrices(g)) :
             g \in {IF timeframe = TimeFrameTicks THEN "M1" ELSE "TICK"}}

\* ----------------------------------------------------------------- state
\* Of the datetime line the feed reads only the bar before the current one
\* (datetime[-1]) and whether there is one (len(self) > 1), so the line is
\* kept as that one value.  Each queue is kept as what the store has put
\* and the feed has not yet taken; the store puts the next message once the
\* previous one is taken, which loses no behaviour of the feed, since get()
\* only ever sees the head of a queue.
VARIABLES
    p,                \* self.p: the parameters, fixed at construction
    state,            \* self._state
    statelivereconn,  \* self._statelivereconn
    fromdate,         \* self.fromdate
    qhist,            \* self.qhist: put by the store, not yet taken
    histend,          \* how the store ended the running request: "", "end" or "none"
    qlive,            \* self.qlive: put by the store, not yet taken
    lastdt,           \* self.lines.datetime[-1]: the last bar delivered, or NaN
    bar,              \* self.lines.*[0]: the slot the call of _load fills
    srcbar,           \* p.backfill_from.lines.*[0]: the external source's bar
    notifs,           \* the notifications put so far
    requests,         \* the date_begin of every price_data call, in order
    pushed,           \* live messages the store has pushed so far
    pc,               \* "idle" or "loop": is a call of _load in progress
    hops,             \* changes of self._state made by the call so far
    ret               \* what the last call of _load returned

vars == <<p, state, statelivereconn, fromdate, qhist, histend, qlive, lastdt,
          bar, srcbar, notifs, requests, pushed, pc, hops, ret>>

\* ------------------------------------------------------- bar construction
\* datetime.fromtimestamp(float(time_stamp) / 1000.0), then date2num
TickDt(time_stamp) == time_stamp
\* datetime.fromtimestamp(time_stamp), then date2num
CandleDt(time_stamp) == time_stamp * MsPerSecond

\* len(self) > 1 inside _load: a bar lies before the slot being filled
LenSelfAboveOne == lastdt # NaN

\* the staleness test with < in place of <=: a fault the ordering
\* properties have to notice
AlreadySeenStrict(dt) == lastdt # NaN /\ dt < lastdt

\* "time already seen": dt <= self.lines.datetime[-1]; any comparison with
\* NaN is false
AlreadySeen(dt) == lastdt # NaN /\ dt <= lastdt

\* _load_candle without its staleness test (a fault)
load_candle_unchecked(time_stamp) == TRUE

\* _load_tick and _load_candle: TRUE when the bar was written
load_tick(time_stamp) == ~AlreadySeen(TickDt(time_stamp))
load_candle(time_stamp) == ~AlreadySeen(CandleDt(time_stamp))

\* a slot of the lines nothing has been written to: NaN in every line
EmptyBar ==
    [datetime |-> NaN, open |-> NaN, high |-> NaN, low |-> NaN, close |-> NaN,
     volume |-> NaN, openinterest |-> NaN]

\* a tick bar built from the bid whatever p.useask says (a fault)
TickPriceBid(bid, ask) == bid

\* tick = float(_ask) if self.p.useask else float(_bid)
TickPrice(bid, ask) == IF p.useask THEN ask ELSE bid

\* the lines _load_tick writes for the row <<time_stamp, bid, ask>>
tick_bar(time_stamp, prices) ==
    LET tick == TickPrice(prices[1], prices[2])
    IN  [datetime |-> TickDt(time_stamp), volume |-> 0, openinterest |-> 0,
         open |-> tick, high |-> tick, low |-> tick, close |-> tick]

\* addspread(p, s) of _load_candle, prices and spread counted in points
addspread(price, spread) == price + spread

\* the lines _load_candle writes for the row
\* <<time_stamp, open, high, low, close, volume, spread>>
candle_bar(time_stamp, prices) ==
    LET px(i) == IF ~p.addspread THEN prices[i] ELSE addspread(prices[i], prices[6])
    IN  [datetime |-> CandleDt(time_stamp), open |-> px(1), high |-> px(2),
         low |-> px(3), close |-> px(4), volume |-> prices[5], openinterest |-> 0]

\* haslivedata()
haslivedata == p.subscribe # "NONE"

\* ------------------------------------------------------------------ Init
\* useask is read by _load_tick only and addspread by _load_candle only:
\* each is left off where it is never read
Params ==
    {q \in [subscribe : SubscribeModes, historical : BOOLEAN, backfill : BOOLEAN,
            timeframe : TimeFrames, backfill_from : {"None", "feed"},
            useask : BOOLEAN, addspread : BOOLEAN] :
        IF q.timeframe = TimeFrameTicks THEN ~q.addspread ELSE ~q.useask}

\* The time stamps a bar of the external source can carry, in the feed's
\* own representation; the source may deliver them in any order.
ExtDts == {(IF p.timeframe = TimeFrameTicks THEN TickDt(ts) ELSE CandleDt(ts)) : ts \in 1..MaxTs}
\* the bars the external source can hold after its next()
ExtBars ==
    {[datetime |-> dt, open |-> 4, high |-> 6, low |-> 3, close |-> 5,
      volume |-> 7, openinterest |-> 0] : dt \in ExtDts}

\* The state after __init__ and start(): with an external source the feed
\* waits in _ST_FROM; without one start() has already run _st_start().
Init ==
    /\ p \in Params
    /\ IF p.backfill_from # "None"
       THEN /\ state = ST_FROM
            /\ notifs = <<>>
            /\ requests = <<>>
       ELSE /\ state = ST_HISTORBACK
            /\ notifs = <<DELAYED>>
            /\ requests = <<NegInf>>
    /\ qhist = <<>>
    /\ histend = ""
    /\ statelivereconn = FALSE
    /\ fromdate = NegInf
    /\ qlive = <<>>
    /\ lastdt = NaN
    /\ bar = EmptyBar
    /\ srcbar = EmptyBar
    /\ pushed = 0
    /\ pc = "idle"
    /\ hops = 0
    /\ ret = "NoCall"

\* ------------------------------------------------------------- operations
\* the lines b are written and the loop goes round for more (a fault)
DeliverAndGoOn(b) ==
    /\ bar' = b
    /\ lastdt' = b.datetime
    /\ pc' = "loop"
    /\ ret' = ret

\* the lines b are written to the slot and the bar is delivered: _load
\* returns True
Deliver(b) ==
    /\ bar' = b
    /\ lastdt' = b.datetime
    /\ pc' = "idle"
    /\ ret' = "NewBar"

\* _load returns r without a bar
Return(r) ==
    /\ pc' = "idle"
    /\ ret' = r

\* `continue`, or falling off the end of the loop body: the next iteration
Continue ==
    /\ pc' = "loop"
    /\ ret' = ret

\* _st_start(): DELAYED, a new historical request from date_begin, and
\* _ST_HISTORBACK; nf is the notification list before the call
st_start(nf, date_begin) ==
    /\ notifs' = Append(nf, DELAYED)
    /\ requests' = Append(requests, date_begin)
    /\ qhist' = <<>>
    /\ histend' = ""
    /\ state' = ST_HISTORBACK

\* going live without telling anybody (a fault)
GoLiveSilent ==
    /\ state' = ST_LIVE
    /\ notifs' = notifs
    /\ Continue

\* "Live is also wished - go for it"
GoLive ==
    /\ state' = ST_LIVE
    /\ notifs' = Append(notifs, LIVE)
    /\ Continue

\* the call counts one more change of self._state if the step makes one
Hop == hops' = hops + (IF state' # state THEN 1 ELSE 0)

\* the head of _load: the two returns in front of the loop; the host has
\* advanced the lines, so the slot to fill is new
LoadEnter ==
    /\ pc = "idle"
    /\ IF state = ST_OVER \/ (state = ST_LIVE /\ ~haslivedata)
       THEN Return("EndOfData")
       ELSE /\ pc' = "loop"
            /\ ret' = "Running"
    /\ bar' = EmptyBar
    /\ hops' = 0
    /\ UNCHANGED <<p, state, statelivereconn, fromdate, qhist, histend, qlive,
                   lastdt, srcbar, notifs, requests, pushed>>

\* a DISCONNECTED message in _ST_LIVE
LiveDisconnected ==
    /\ notifs' = Append(notifs, DISCONNECTED)
    /\ state' = IF ~p.backfill THEN ST_OVER ELSE state
    /\ statelivereconn' = TRUE
    /\ Continue
    /\ UNCHANGED <<fromdate, qhist, histend, lastdt, bar, requests>>

\* a reconnect that leaves self.fromdate alone (a fault)
RewindForgotten == fromdate

\* the "from" bound a reconnect leaves in self.fromdate
Rewind == IF LenSelfAboveOne THEN lastdt ELSE fromdate

\* a reconnect that leaves _statelivereconn set (a fault)
LiveReconnectedFlagKept ==
    /\ statelivereconn' = statelivereconn
    /\ fromdate' = Rewind
    /\ st_start(Append(notifs, CONNECTED), fromdate')
    /\ Continue
    /\ UNCHANGED <<lastdt, bar>>

\* a CONNECTED message in _ST_LIVE while _statelivereconn is set
LiveReconnected ==
    /\ statelivereconn' = FALSE
    /\ fromdate' = Rewind
    /\ st_start(Append(notifs, CONNECTED), fromdate')
    /\ Continue
    /\ UNCHANGED <<lastdt, bar>>

\* a data message is taken for this feed whatever its time frame (a fault)
MatchesSymbolOnly(msg) == msg.symbol = Dataname

\* lines 235 and 236: the message is one of this feed
Matches(msg) ==
    msg.timeframe = get_granularity(p.timeframe) /\ msg.symbol = Dataname

\* any other message in _ST_LIVE: lines 234 to 243
LiveData(msg) ==
    /\ IF ~msg.hasdata
       THEN \* msg["timeframe"] of a message without that key
            /\ Return("KeyError")
            /\ UNCHANGED <<lastdt, bar>>
       ELSE IF Matches(msg)
       THEN IF msg.timeframe = "TICK"
            THEN IF load_tick(msg.ts)
                 THEN Deliver(tick_bar(msg.ts, msg.prices))
                 ELSE Continue /\ UNCHANGED <<lastdt, bar>>
            ELSE IF load_candle(msg.ts)
                 THEN Deliver(candle_bar(msg.ts, msg.prices))
                 ELSE Continue /\ UNCHANGED <<lastdt, bar>>
       ELSE Continue /\ UNCHANGED <<lastdt, bar>>
    /\ UNCHANGED <<state, statelivereconn, fromdate, qhist, histend, notifs, requests>>

\* one iteration in _ST_LIVE that gets a message from the channel; get()
\* of the queue waits until there is one
LiveMsg ==
    /\ pc = "loop"
    /\ state = ST_LIVE
    /\ p.subscribe \in {"DATA", "SUB"}
    /\ qlive # <<>>
    /\ qlive' = Tail(qlive)
    /\ LET msg == Head(qlive)
       IN  IF msg.status = "DISCONNECTED" THEN LiveDisconnected
           ELSE IF msg.status = "CONNECTED" /\ statelivereconn THEN LiveReconnected
           ELSE LiveData(msg)
    /\ Hop
    /\ UNCHANGED <<p, srcbar, pushed>>

\* recv_string() on the SUB socket with nothing received within RCVTIMEO:
\* zmq raises Again, which _load does not catch
LiveRecvTimeout ==
    /\ pc = "loop"
    /\ state = ST_LIVE
    /\ p.subscribe = "SUB"
    /\ qlive = <<>>
    /\ Return("Again")
    /\ UNCHANGED <<p, state, statelivereconn, fromdate, qhist, histend, qlive,
                   lastdt, bar, srcbar, notifs, requests, pushed, hops>>

\* one iteration in _ST_LIVE with subscribe = None: msg = None, nothing is
\* done and the loop goes round
LiveNoChannel ==
    /\ pc = "loop"
    /\ state = ST_LIVE
    /\ p.subscribe = "NONE"
    /\ UNCHANGED vars

\* the end marker stopping a historical-only feed without DISCONNECTED
\* (a fault)
HistExhaustedSilent ==
    IF p.historical
    THEN /\ notifs' = notifs
         /\ state' = ST_OVER
         /\ Return("EndOfData")
    ELSE GoLive

\* the end marker of the historical queue: lines 262 to 272
HistExhausted ==
    IF p.historical
    THEN /\ notifs' = Append(notifs, DISCONNECTED)
         /\ state' = ST_OVER
         /\ Return("EndOfData")
    ELSE GoLive

\* a cancelled request answered by a new try of the backfill (a fault)
HistFailedRetried ==
    /\ notifs' = Append(notifs, DISCONNECTED)
    /\ state' = ST_START
    /\ Continue

\* qhist.get() yields None: lines 249 to 253
HistFailed ==
    /\ notifs' = Append(notifs, DISCONNECTED)
    /\ state' = ST_OVER
    /\ Return("EndOfData")

\* one iteration in _ST_HISTORBACK; qhist.get() waits for the store
HistStep ==
    /\ pc = "loop"
    /\ state = ST_HISTORBACK
    /\ qhist # <<>>
    /\ qhist' = Tail(qhist)
    /\ LET msg == Head(qhist)
       IN  IF msg.kind = "none"
           THEN /\ HistFailed
                /\ UNCHANGED <<lastdt, bar>>
           ELSE IF msg.kind = "data" /\ p.timeframe = TimeFrameTicks
           THEN IF load_tick(msg.ts)
                THEN /\ Deliver(tick_bar(msg.ts, msg.prices))
                     /\ UNCHANGED <<state, notifs>>
                ELSE /\ GoLive
                     /\ UNCHANGED <<lastdt, bar>>
           ELSE IF msg.kind = "data"
           THEN IF load_candle(msg.ts)
                THEN /\ Deliver(candle_bar(msg.ts, msg.prices))
                     /\ UNCHANGED <<state, notifs>>
                ELSE /\ Continue
                     /\ UNCHANGED <<state, notifs, lastdt, bar>>
           ELSE /\ HistExhausted
                /\ UNCHANGED <<lastdt, bar>>
    /\ Hop
    /\ UNCHANGED <<p, statelivereconn, fromdate, histend, qlive, srcbar, requests,
                   pushed>>

\* only the datetime line of the source is copied (a fault)
CopyDatetimeOnly(src) == [EmptyBar EXCEPT !.datetime = src.datetime]

\* "copy lines of the same name": lines 281 to 285
CopyLines(src) ==
    [alias \in DOMAIN EmptyBar |-> src[alias]]

\* one iteration in _ST_FROM
FromStep ==
    /\ pc = "loop"
    /\ state = ST_FROM
    /\ \/ \* next() has a bar: every line of it is copied
          /\ \E b \in ExtBars :
                /\ srcbar' = b
                /\ Deliver(CopyLines(b))
          /\ UNCHANGED state
       \/ \* next() returns False: the source is consumed and has no bar
          /\ state' = ST_START
          /\ srcbar' = EmptyBar
          /\ Continue
          /\ UNCHANGED <<lastdt, bar>>
    /\ Hop
    /\ UNCHANGED <<p, statelivereconn, fromdate, qhist, histend, qlive, notifs,
                   requests, pushed>>

\* one iteration in _ST_START: _st_start() always returns True
StartStep ==
    /\ pc = "loop"
    /\ state = ST_START
    /\ st_start(notifs, fromdate)
    /\ Continue
    /\ Hop
    /\ UNCHANGED <<p, statelivereconn, fromdate, qlive, lastdt, bar, srcbar, pushed>>

\* one iteration with _state = _ST_OVER: no branch of the if/elif chain
\* applies and the loop goes round
OverLoop ==
    /\ pc = "loop"
    /\ state = ST_OVER
    /\ UNCHANGED vars

\* the store's thread puts a live message into the channel
StorePush ==
    /\ p.subscribe # "NONE"
    /\ pushed < MaxLive
    /\ qlive = <<>>
    /\ pushed' = pushed + 1
    /\ \E msg \in LiveMsgs(p.timeframe) : qlive' = <<msg>>
    /\ UNCHANGED <<p, state, statelivereconn, fromdate, qhist, histend, lastdt,
                   bar, srcbar, notifs, requests, pc, hops, ret>>

\* the store's price_data thread puts the next row of the running request
StoreHistRow ==
    /\ requests # <<>>
    /\ histend = ""
    /\ qhist = <<>>
    /\ \E ts \in 1..MaxTs, pr \in Prices(get_granularity(p.timeframe)) :
         qhist' = <<HistData(ts, pr)>>
    /\ UNCHANGED <<p, state, statelivereconn, fromdate, histend, qlive, lastdt,
                   bar, srcbar, notifs, requests, pushed, pc, hops, ret>>

\* ... or ends the request: the end marker, or None when it failed
StoreHistEnd ==
    /\ requests # <<>>
    /\ histend = ""
    /\ qhist = <<>>
    /\ \E last \in {HistEnd, HistNone} :
         /\ qhist' = <<last>>
         /\ histend' = last.kind
    /\ UNCHANGED <<p, state, statelivereconn, fromdate, qlive, lastdt, bar,
                   srcbar, notifs, requests, pushed, pc, hops, ret>>

\* the steps of a call of _load in progress
LoadStep ==
    \/ LiveMsg
    \/ LiveRecvTimeout
    \/ LiveNoChannel
    \/ HistStep
    \/ FromStep
    \/ StartStep
    \/ OverLoop

Next ==
    \/ LoadEnter
    \/ LoadStep
    \/ StorePush
    \/ StoreHistRow
    \/ StoreHistEnd

Spec == Init /\ [][Next]_vars

\* The host keeps calling _load, a call in progress keeps running, and the
\* store ends every historical request with its end marker sooner or
\* later; the store is under no obligation to push live messages.
FairSpec ==
    /\ Spec
    /\ WF_vars(LoadEnter)
    /\ WF_vars(LoadStep)
    /\ SF_vars(StoreHistEnd)

\* ------------------------------------------------------------ properties
\* the time stamp of a message in the feed's representation
Dt(ts) == IF p.timeframe = TimeFrameTicks THEN TickDt(ts) ELSE CandleDt(ts)

\* a step in which _load returns True: a bar is delivered
Delivered == pc = "loop" /\ pc' = "idle" /\ ret' = "NewBar"

\* a step of _load that takes the head of the historical queue
HistTaken ==
    pc = "loop" /\ state = ST_HISTORBACK /\ qhist # <<>> /\ qhist' = Tail(qhist)

\* a step of _load that takes the head of the live channel
LiveTaken ==
    pc = "loop" /\ state = ST_LIVE /\ qlive # <<>> /\ qlive' = Tail(qlive)

\* how many LIVE notifications nf holds
NumLive(nf) == Cardinality({i \in DOMAIN nf : nf[i] = LIVE})

\* a reconnect has restarted the backfill at least once
Restarted == Len(requests) >= 2

\* C1 as stated: every bar delivered, whatever its origin, is strictly newer
\* than the bar delivered before it.
C1_EveryBarNewer ==
    [][(Delivered /\ lastdt # NaN) => lastdt' > lastdt]_vars

\* C1 amended: every bar built from a historical or a live message is
\* strictly newer than the bar delivered before it, whichever origin that
\* bar had (external source, earlier backfill, live); bars copied from the
\* external source in _ST_FROM are not compared with anything.
C1_BuiltBarNewer ==
    [][(Delivered /\ state \in {ST_HISTORBACK, ST_LIVE} /\ lastdt # NaN)
          => lastdt' > lastdt]_vars

\* C1: a bar has been delivered by a backfill restarted after a reconnect,
\* in a feed that began with an external source
C1_Witness ==
    /\ p.backfill_from = "feed"
    /\ Restarted
    /\ state = ST_HISTORBACK
    /\ pc = "idle"
    /\ ret = "NewBar"

\* C2 as stated: once a reconnect has restarted the backfill, the feed is
\* not in LIVE while a row of the historical queue newer than the last bar
\* delivered is still unread (a row left there is never read again).
C2_GapFreeReconnect ==
    (Restarted /\ state = ST_LIVE)
        => \A i \in DOMAIN qhist :
              ~(qhist[i].kind = "data" /\ (lastdt = NaN \/ Dt(qhist[i].ts) > lastdt))

\* C3: in LIVE with backfill on, DISCONNECTED sets the reconnect flag and
\* keeps LIVE; a CONNECTED message taken while the flag is set puts the
\* CONNECTED notification, clears the flag, moves the "from" bound to the
\* last bar delivered (if there is one), issues a historical request with
\* that bound and leaves the feed in HISTORBACK.
C3_ReconnectRestartsBackfill ==
    [][/\ (LiveTaken /\ p.backfill /\ Head(qlive).status = "DISCONNECTED")
            => (statelivereconn' /\ state' = ST_LIVE)
       /\ (LiveTaken /\ p.backfill /\ Head(qlive).status = "CONNECTED" /\ statelivereconn)
            => /\ notifs' = notifs \o <<CONNECTED, DELAYED>>
               /\ ~statelivereconn'
               /\ fromdate' = (IF lastdt # NaN THEN lastdt ELSE fromdate)
               /\ requests' = Append(requests, fromdate')
               /\ state' = ST_HISTORBACK]_vars

\* C3: the backfill was restarted from the last bar delivered
C3_Witness ==
    /\ Restarted
    /\ state = ST_HISTORBACK
    /\ ~statelivereconn
    /\ lastdt # NaN
    /\ fromdate = lastdt
    /\ requests[Len(requests)] = lastdt
    /\ notifs[Len(notifs) - 1] = CONNECTED

\* C4: after a reconnect no bar is delivered whose time stamp is at or
\* before the bound of any restarted request, which is the last bar
\* delivered before that disconnect.
C4_NoDuplicateAfterReconnect ==
    [][(Delivered /\ Restarted)
          => \A i \in 2..Len(requests) :
                requests[i] = NegInf \/ lastdt' > requests[i]]_vars

\* C4: a restarted backfill has delivered a bar beyond its bound
C4_Witness ==
    /\ Restarted
    /\ state = ST_HISTORBACK
    /\ pc = "idle"
    /\ ret = "NewBar"
    /\ requests[Len(requests)] # NegInf
    /\ lastdt > requests[Len(requests)]

\* C5: with historical off, taking the end marker moves the feed from
\* HISTORBACK to LIVE and puts exactly one LIVE notification; no step that
\* stays in LIVE puts another.
C5_LiveOnExhaustion ==
    [][/\ (HistTaken /\ Head(qhist).kind = "end" /\ ~p.historical)
            => (state' = ST_LIVE /\ notifs' = Append(notifs, LIVE))
       /\ (state = ST_LIVE /\ state' = ST_LIVE)
            => NumLive(notifs') = NumLive(notifs)]_vars

\* C5: the feed went live on the end marker and a later call has returned
C5_Witness ==
    /\ ~p.historical
    /\ state = ST_LIVE
    /\ histend = "end"
    /\ qhist = <<>>
    /\ NumLive(notifs) = 1
    /\ pc = "idle"
    /\ ret = "NewBar"

\* C6: with historical on, taking the end marker puts DISCONNECTED, moves
\* the feed to OVER and returns EndOfData; from then on the feed stays in
\* OVER and every call returns EndOfData.
C6_HistoricalOnlyTermination ==
    [][/\ (HistTaken /\ Head(qhist).kind = "end" /\ p.historical)
            => /\ notifs' = Append(notifs, DISCONNECTED)
               /\ state' = ST_OVER
               /\ pc' = "idle"
               /\ ret' = "EndOfData"
       /\ (p.historical /\ state = ST_OVER /\ pc = "idle")
            => (state' = ST_OVER /\ pc' = "idle" /\ ret' = "EndOfData")]_vars

\* C6: a historical-only feed has read its end marker and is over
C6_Witness ==
    /\ p.historical
    /\ histend = "end"
    /\ qhist = <<>>
    /\ state = ST_OVER
    /\ notifs[Len(notifs)] = DISCONNECTED
    /\ pc = "idle"
    /\ ret = "EndOfData"

\* C7 as stated: a historical-only feed is never in LIVE and never puts a
\* LIVE notification (the live channel is read in LIVE only).
C7_HistoricalNeverLive ==
    p.historical => (state # ST_LIVE /\ NumLive(notifs) = 0)

\* C8 as stated: a call that finds the DATA queue empty in LIVE can return
\* TryLater there and then, leaving state and reconnect flag as they are.
C8_EmptyQueueTryLater ==
    (pc = "loop" /\ state = ST_LIVE /\ p.subscribe = "DATA" /\ qlive = <<>>)
        => ENABLED (/\ LoadStep
                    /\ pc' = "idle"
                    /\ ret' = "TryLater"
                    /\ state' = state
                    /\ statelivereconn' = statelivereconn)

\* C9 as stated: every call of _load in progress returns NewBar, TryLater
\* or EndOfData.
C9_EveryPollReturns ==
    (pc = "loop") ~> (pc = "idle" /\ ret \in {"NewBar", "TryLater", "EndOfData"})

\* C10 as stated: once DISCONNECTED has been taken in LIVE with backfill
\* off (the only way to OVER with the reconnect flag set), the feed is OVER
\* and the call, if still running, can return EndOfData.
C10_FatalDisconnect ==
    (~p.backfill /\ state = ST_OVER /\ statelivereconn)
        => /\ notifs[Len(notifs)] = DISCONNECTED
           /\ \/ (pc = "idle" /\ ret = "EndOfData")
              \/ ENABLED (LoadStep /\ pc' = "idle" /\ ret' = "EndOfData")

\* C11 as stated: whenever the feed is OVER, state and reconnect flag stay
\* as they are and the call to come, or the call in progress, can return
\* EndOfData without a bar or a notification.
C11_OverFrozen ==
    state = ST_OVER
        => ENABLED (/\ (LoadEnter \/ LoadStep)
                    /\ pc' = "idle"
                    /\ ret' = "EndOfData"
                    /\ state' = ST_OVER
                    /\ statelivereconn' = statelivereconn
                    /\ notifs' = notifs
                    /\ lastdt' = lastdt)

\* a step of _load that hands the tick at the head of the historical queue
\* to _load_tick
HistTickTaken ==
    HistTaken /\ p.timeframe = TimeFrameTicks /\ Head(qhist).kind = "data"

\* a step of _load that hands the tick at the head of the live channel to
\* _load_tick
LiveTickTaken ==
    /\ LiveTaken
    /\ ~statelivereconn
    /\ p.timeframe = TimeFrameTicks
    /\ Head(qlive).hasdata
    /\ Head(qlive).symbol = Dataname
    /\ Head(qlive).timeframe = "TICK"

\* what C12 says of a tick <<ts, bid, ask>> handed to _load_tick
TickBuilt(ts, bid, ask) ==
    IF lastdt = NaN \/ ts > lastdt
    THEN /\ Delivered
         /\ bar'.datetime = ts
         /\ bar'.open = (IF p.useask THEN ask ELSE bid)
         /\ bar'.high = bar'.open
         /\ bar'.low = bar'.open
         /\ bar'.close = bar'.open
         /\ bar'.volume = 0
         /\ bar'.openinterest = 0
         /\ lastdt' = ts
    ELSE /\ ~Delivered
         /\ bar' = EmptyBar
         /\ lastdt' = lastdt

\* C12: a tick newer than the last bar delivered gives a bar with open =
\* high = low = close = bid (useask off) or ask (useask on), volume 0 and
\* open interest 0; a tick not newer gives no bar and leaves every line of
\* the slot unwritten.
C12_TickBar ==
    [][/\ HistTickTaken
            => TickBuilt(Head(qhist).ts, Head(qhist).prices[1], Head(qhist).prices[2])
       /\ LiveTickTaken
            => TickBuilt(Head(qlive).ts, Head(qlive).prices[1], Head(qlive).prices[2])]_vars

\* C12: with useask on, a live tick of bid 2 and ask 3 has been delivered
\* as a bar
C12_Witness ==
    /\ p.useask
    /\ state = ST_LIVE
    /\ pc = "idle"
    /\ ret = "NewBar"
    /\ lastdt # NaN
    /\ bar = [datetime |-> lastdt, open |-> 3, high |-> 3, low |-> 3, close |-> 3,
              volume |-> 0, openinterest |-> 0]

\* C13 as stated: a row of the historical queue, tick or candle, that is not
\* newer than the last bar delivered is skipped: the feed stays in
\* HISTORBACK, puts no notification and goes on to the next row within the
\* same call.
C13_StaleRowSkipped ==
    [][(HistTaken /\ Head(qhist).kind = "data" /\ lastdt # NaN
          /\ Dt(Head(qhist).ts) <= lastdt)
          => /\ state' = ST_HISTORBACK
             /\ notifs' = notifs
             /\ pc' = "loop"
             /\ lastdt' = lastdt]_vars

\* C14 as stated: a call of _load changes self._state at most once.
C14_OneTransitionPerPoll == hops <= 1

\* C14 amended: a call of _load delivers at most one bar, since the step
\* that writes a line of the slot is the step in which the call returns
\* True; the number of state changes of one call is not bounded by one.
C14_OneBarPerPoll ==
    [][(bar' # bar /\ pc = "loop") => (pc' = "idle" /\ ret' = "NewBar")]_vars

\* C14: one call has found the external source consumed, started the
\* backfill, read its end marker, gone live and delivered a live bar
C14_Witness ==
    /\ hops = 3
    /\ state = ST_LIVE
    /\ pc = "idle"
    /\ ret = "NewBar"
    /\ bar.datetime = lastdt

\* C15 as stated: the CONNECTED notification is put only by a step that
\* takes a CONNECTED message while the reconnect flag is set; a CONNECTED
\* control event taken in LIVE while the flag is clear puts no
\* notification, issues no request, raises nothing and leaves the feed in
\* LIVE.
C15_FirstConnectIgnored ==
    [][/\ (Len(notifs') > Len(notifs) /\ CONNECTED \in {notifs'[i] : i \in Len(notifs) + 1..Len(notifs')})
            => (LiveTaken /\ Head(qlive).status = "CONNECTED" /\ statelivereconn)
       /\ (LiveTaken /\ Head(qlive) = ControlMsg("CONNECTED") /\ ~statelivereconn)
            => /\ notifs' = notifs
               /\ requests' = requests
               /\ state' = ST_LIVE
               /\ ret' \in {"Running", "NewBar", "TryLater", "EndOfData"}]_vars

\* C16 as stated: in LIVE with the SUB transport, a call that ends while
\* nothing has arrived has returned TryLater and left state and reconnect
\* flag as they are.
C16_RecvTimeoutTryLater ==
    [][(pc = "loop" /\ state = ST_LIVE /\ p.subscribe = "SUB" /\ qlive = <<>>
          /\ pc' = "idle")
          => /\ ret' = "TryLater"
             /\ state' = state
             /\ statelivereconn' = statelivereconn]_vars

\* C17: a call that takes None from the historical queue puts DISCONNECTED,
\* moves the feed to OVER and returns EndOfData without a new request,
\* whatever historical and backfill say; a feed that is OVER stays OVER and
\* issues no request.
C17_CursorFailure ==
    [][/\ (HistTaken /\ Head(qhist).kind = "none")
            => /\ notifs' = Append(notifs, DISCONNECTED)
               /\ state' = ST_OVER
               /\ pc' = "idle"
               /\ ret' = "EndOfData"
               /\ requests' = requests
       /\ state = ST_OVER
            => (state' = ST_OVER /\ requests' = requests)]_vars

\* C17: a feed with historical off and backfill on is over because the
\* store cancelled its request
C17_Witness ==
    /\ ~p.historical
    /\ p.backfill
    /\ histend = "none"
    /\ qhist = <<>>
    /\ state = ST_OVER
    /\ notifs[Len(notifs)] = DISCONNECTED
    /\ pc = "idle"
    /\ ret = "EndOfData"

\* the message is one line 215 and line 224 let through to the data branch
TakenAsData(msg) ==
    /\ msg.hasdata
    /\ msg.status # "DISCONNECTED"
    /\ ~(msg.status = "CONNECTED" /\ statelivereconn)

\* the data message is not one of this feed, or not newer than the last bar
MismatchOrStale(msg) ==
    \/ msg.symbol # Dataname
    \/ msg.timeframe # (IF p.timeframe = TimeFrameTicks THEN "TICK" ELSE "M1")
    \/ lastdt # NaN /\ Dt(msg.ts) <= lastdt

\* the step leaves the feed as it is and the call goes on
Dropped ==
    /\ pc' = "loop"
    /\ ret' = ret
    /\ bar' = bar
    /\ lastdt' = lastdt
    /\ notifs' = notifs
    /\ requests' = requests
    /\ state' = state
    /\ statelivereconn' = statelivereconn
    /\ fromdate' = fromdate

FeedStep == pc = "loop" /\ pushed' = pushed /\ Len(qhist') <= Len(qhist)

\* C19: a feed with an external source starts in FROM; while it is in FROM
\* there is neither a DELAYED notification nor a historical request; a
\* step of a call in FROM either delivers one bar equal in every line to
\* the source's bar and stays in FROM, or finds the source consumed and
\* moves to START without a bar; the step in START puts DELAYED, issues the
\* request and moves to HISTORBACK; the feed never comes back to FROM, so
\* every bar of the external source is delivered before any other bar.
C19_ExternalBackfillFirst ==
    /\ (p.backfill_from = "feed" => state = ST_FROM)
    /\ [][/\ state = ST_FROM => (notifs = <<>> /\ requests = <<>>)
          /\ (state = ST_FROM /\ FeedStep)
                => \/ /\ Delivered
                      /\ srcbar' \in ExtBars
                      /\ bar' = srcbar'
                      /\ state' = ST_FROM
                      /\ notifs' = notifs
                      /\ requests' = requests
                   \/ /\ state' = ST_START
                      /\ pc' = "loop"
                      /\ bar' = bar
                      /\ lastdt' = lastdt
                      /\ notifs' = notifs
                      /\ requests' = requests
          /\ (state = ST_START /\ FeedStep)
                => /\ notifs' = Append(notifs, DELAYED)
                   /\ requests' = Append(requests, fromdate)
                   /\ state' = ST_HISTORBACK
                   /\ pc' = "loop"
                   /\ bar' = bar
          /\ state # ST_FROM => state' # ST_FROM]_vars

\* C19: one call has found the external source consumed after it had
\* delivered a bar, has put DELAYED and issued the first request, and is now
\* waiting for the historical queue
C19_Witness ==
    /\ p.backfill_from = "feed"
    /\ state = ST_HISTORBACK
    /\ lastdt # NaN
    /\ srcbar = EmptyBar
    /\ notifs = <<DELAYED>>
    /\ Len(requests) = 1
    /\ pc = "loop"
    /\ hops = 2

\* C20: the reconnect flag is set only while the feed is in LIVE or OVER;
\* in FROM, START and HISTORBACK it is clear.
C20_FlagOnlyLiveOrOver ==
    statelivereconn => state \in {ST_LIVE, ST_OVER}

\* C20: after a backfill restarted by a reconnect has ended, the feed is
\* live again and a second DISCONNECTED has set the flag anew
C20_Witness ==
    /\ statelivereconn
    /\ state = ST_LIVE
    /\ Restarted
    /\ p.backfill

====
